---------------------------- MODULE Spec2Model ----------------------------
(***************************************************************************)
(* Routing and collaboration engine of the multi-agent playground:         *)
(*   RouterAgent            (src/src/agent/router.py)                      *)
(*   CollaborationSession,                                                 *)
(*   CollaborationManager   (src/src/agent/collaboration.py)               *)
(*   MultiAgentOrchestrator (src/src/agent/multi_agent_orchestrator.py)    *)
(*                                                                         *)
(* Texts are sequences of string tokens; a query is a string whose         *)
(* characters are given by Chars.  Optional values (Python None) are       *)
(* records with a "some" flag.                                             *)
(***************************************************************************)
EXTENDS Integers, Sequences, FiniteSets, TLC

\* ------------------------------------------------------------------------
\* Bounds
\* ------------------------------------------------------------------------

\* Largest number of comma separated entries on a SUPPORTING line.
MaxSupporting == 2

\* The longest message list of a session handed to synthesize_responses on
\* its own, and the number of times it is then called.
MaxMessages == 2

MaxSynthCalls == 2

\* The runs of process_query on one orchestrator and the readings of the
\* clock while they create their sessions.
MaxRuns == 3

MaxClock == 6

\* The tier of the rate limiter: the requests each window lets in and the
\* length of the window, in ticks of the clock; the interval of the cleanup.
SecondLimit == 2

MinuteLimit == 3

HourLimit == 3

DayLimit == 4

SecondWindow == 1

MinuteWindow == 2

HourWindow == 3

DayWindow == 5

CleanupInterval == 2

\* auth.py: the failed logins that lock an account
MAX_LOGIN_ATTEMPTS == 5

\* LOCKOUT_DURATION, in ticks of the clock
LockoutDuration == 2

\* record_failed_login is called at most so many times between two calls of
\* record_successful_login.
MaxFailedLogins == 7

\* ------------------------------------------------------------------------
\* Generic helpers
\* ------------------------------------------------------------------------

None == [some |-> FALSE]

Some(x) == [some |-> TRUE, v |-> x]

Range(s) == {s[i] : i \in 1..Len(s)}

SeqsUpTo(S, n) == UNION {[1..k -> S] : k \in 0..n}

\* ------------------------------------------------------------------------
\* The agent registry (RouterAgent.available_agents)
\* ------------------------------------------------------------------------

\* Keys of available_agents in declaration (dict insertion) order.
AgentKeys == <<"sql", "csharp", "epicor", "general">>

available_agents == Range(AgentKeys)

Expertise_sql ==
    << <<"d", "a", "t", "a", "b", "a", "s", "e", " ", "q", "u", "e", "r", "i", "e", "s">>,
       <<"S", "Q", "L">>,
       <<"d", "a", "t", "a", " ", "r", "e", "t", "r", "i", "e", "v", "a", "l">>,
       <<"s", "c", "h", "e", "m", "a">>,
       <<"p", "o", "s", "t", "g", "r", "e", "s", "q", "l">>,
       <<"d", "a", "t", "a", "b", "a", "s", "e", " ", "d", "e", "s", "i", "g", "n">>,
       <<"s", "e", "l", "e", "c", "t">>,
       <<"j", "o", "i", "n">>,
       <<"w", "h", "e", "r", "e">> >>

Expertise_csharp ==
    << <<"c", "#">>,
       <<"c", "s", "h", "a", "r", "p">>,
       <<".", "n", "e", "t">>,
       <<"p", "r", "o", "g", "r", "a", "m", "m", "i", "n", "g">>,
       <<"l", "i", "n", "q">>,
       <<"a", "s", "y", "n", "c">>,
       <<"a", "w", "a", "i", "t">>,
       <<"c", "o", "d", "e", " ", "e", "x", "a", "m", "p", "l", "e", "s">>,
       <<"e", "n", "t", "i", "t", "y", " ", "f", "r", "a", "m", "e", "w", "o", "r", "k">>,
       <<"a", "s", "p", ".", "n", "e", "t">> >>

Expertise_epicor ==
    << <<"e", "p", "i", "c", "o", "r">>,
       <<"p", "2", "1">>,
       <<"e", "r", "p">>,
       <<"e", "x", "p", "o", "r", "t">>,
       <<"i", "m", "p", "o", "r", "t">>,
       <<"p", "2", "1", " ", "a", "p", "i">>,
       <<"p", "2", "1", " ", "d", "a", "t", "a", "b", "a", "s", "e">>,
       <<"e", "r", "p", " ", "i", "n", "t", "e", "g", "r", "a", "t", "i", "o", "n">> >>

Expertise_general ==
    << <<"g", "e", "n", "e", "r", "a", "l">>,
       <<"e", "x", "p", "l", "a", "i", "n">>,
       <<"w", "h", "a", "t", " ", "i", "s">>,
       <<"h", "o", "w", " ", "d", "o">>,
       <<"h", "e", "l", "p">>,
       <<"q", "u", "e", "s", "t", "i", "o", "n">>,
       <<"d", "i", "s", "c", "u", "s", "s", "i", "o", "n">>,
       <<"b", "r", "a", "i", "n", "s", "t", "o", "r", "m">>,
       <<"a", "d", "v", "i", "c", "e">> >>

\* agent_info["expertise"] of a registry key.
Expertise(agent_key) ==
    CASE agent_key = "sql" -> Expertise_sql
      [] agent_key = "csharp" -> Expertise_csharp
      [] agent_key = "epicor" -> Expertise_epicor
      [] agent_key = "general" -> Expertise_general

\* ------------------------------------------------------------------------
\* Queries and str operations
\* ------------------------------------------------------------------------

\* The queries submitted to process_query.
Queries ==
    {"hi", "help", "SQL", "SQL export", "selection", "select export",
     "select c# linq p21 erp export"}

\* The queries of the runs of process_query that are followed to their end.
RunQueries == {"hi", "select c# linq p21 erp export"}

\* The characters of a query.
Chars(q) ==
    CASE q = "hi" -> <<"h", "i">>
      [] q = "help" -> <<"h", "e", "l", "p">>
      [] q = "SQL export" ->
            <<"S", "Q", "L", " ", "e", "x", "p", "o", "r", "t">>
      [] q = "SQL" -> <<"S", "Q", "L">>
      [] q = "select export" ->
            <<"s", "e", "l", "e", "c", "t", " ", "e", "x", "p", "o", "r",
              "t">>
      [] q = "selection" ->
            <<"s", "e", "l", "e", "c", "t", "i", "o", "n">>
      [] q = "select c# linq p21 erp export" ->
            <<"s", "e", "l", "e", "c", "t", " ", "c", "#", " ", "l", "i",
              "n", "q", " ", "p", "2", "1", " ", "e", "r", "p", " ", "e",
              "x", "p", "o", "r", "t">>

\* str.lower() on one character (the upper case letters that occur).
LowerChar(c) ==
    CASE c = "S" -> "s"
      [] c = "Q" -> "q"
      [] c = "L" -> "l"
      [] OTHER -> c

\* str.lower()
Lower(s) == [i \in 1..Len(s) |-> LowerChar(s[i])]

\* Python's `keyword in text` for strings: keyword is a contiguous substring.
Contains(text, keyword) ==
    \E i \in 0..(Len(text) - Len(keyword)) :
        \A j \in 1..Len(keyword) : text[i + j] = keyword[j]

\* ------------------------------------------------------------------------
\* RouterAgent._fallback_routing
\* ------------------------------------------------------------------------

\* scores[agent_key]: the number of the agent's keywords found in the
\* lower-cased query (each keyword counts at most once).
Score(agent_key, q) ==
    Cardinality({i \in 1..Len(Expertise(agent_key)) :
                    Contains(Lower(Chars(q)), Expertise(agent_key)[i])})

\* scores after the two nested loops.
Scores(q) == [a \in available_agents |-> Score(a, q)]

\* max(scores.values())
MaxScore(scores) ==
    CHOOSE m \in {scores[a] : a \in available_agents} :
        \A a \in available_agents : scores[a] <= m

\* The last key, in declaration order, that carries the maximal score.
LastMax(scores) ==
    AgentKeys[CHOOSE i \in 1..Len(AgentKeys) :
                 /\ scores[AgentKeys[i]] = MaxScore(scores)
                 /\ \A j \in (i + 1)..Len(AgentKeys) :
                       scores[AgentKeys[j]] < MaxScore(scores)]

\* max(scores.items(), key=lambda x: x[1])[0]: the first key, in
\* declaration order, that carries the maximal score.
FirstMax(scores) ==
    AgentKeys[CHOOSE i \in 1..Len(AgentKeys) :
                 /\ scores[AgentKeys[i]] = MaxScore(scores)
                 /\ \A j \in 1..(i - 1) :
                       scores[AgentKeys[j]] < MaxScore(scores)]

FallbackPrimary(scores) ==
    IF MaxScore(scores) = 0 THEN "general" ELSE FirstMax(scores)

\* The same agents in the reverse of the declaration order.
FallbackSupportingReversed(scores, primary) ==
    LET Test(a) == scores[a] > 0 /\ a # primary
        Reversed == [i \in 1..Len(AgentKeys) |->
                        AgentKeys[Len(AgentKeys) + 1 - i]]
    IN  SelectSeq(Reversed, Test)

\* The list comprehension over scores.items(): declaration order is kept.
FallbackSupporting(scores, primary) ==
    LET Test(a) == scores[a] > 0 /\ a # primary
    IN  SelectSeq(AgentKeys, Test)

FallbackMode(supporting) ==
    IF Len(supporting) = 0 THEN "single"
    ELSE IF Len(supporting) <= 2 THEN "sequential"
    ELSE "sequential"

FallbackDecision(scores) ==
    LET primary == FallbackPrimary(scores)
        supporting == FallbackSupporting(scores, primary)
    IN  [primary_agent |-> primary,
         supporting_agents |-> supporting,
         collaboration_mode |-> FallbackMode(supporting),
         reasoning |-> [kind |-> "Keyword matching",
                        detail |-> <<primary, ToString(scores[primary]),
                                     IF MaxScore(scores) = 0
                                     THEN " (defaulted to general)"
                                     ELSE "">>],
         confidence |-> "low"]

_fallback_routing(q) == FallbackDecision(Scores(q))

\* ------------------------------------------------------------------------
\* RouterAgent._parse_routing_response
\* ------------------------------------------------------------------------

\* A line of the reasoning call's response, after strip().strip('`'):
\* the label it starts with ("OTHER" when it starts with none of the five
\* labels, "" for an empty line) and the text after the first ":", given as
\* its comma separated parts, each already stripped of white space.
AgentTokens == available_agents \cup {"SQL", "bogus"}

SupportingTokens == available_agents \cup {"bogus"}

ModeTokens == {"single", "sequential", "parallel", "Parallel", "bogus"}

ConfidenceTokens == {"high", "medium", "low", "bogus"}

Lines ==
    [key : {"PRIMARY"}, val : {<<t>> : t \in AgentTokens}]
    \cup [key : {"SUPPORTING"},
          val : SeqsUpTo(SupportingTokens, MaxSupporting) \cup {<<"none">>}]
    \cup [key : {"MODE"}, val : {<<t>> : t \in ModeTokens}]
    \cup [key : {"CONFIDENCE"}, val : {<<t>> : t \in ConfidenceTokens}]
    \cup [key : {"REASONING"}, val : {<<"because">>}]
    \cup [key : {"OTHER", ""}, val : {<<>>}]

\* The response lines of the runs of process_query that are followed to
\* their end.
RunLines ==
    {line \in Lines :
        /\ line.key \in {"PRIMARY", "SUPPORTING", "MODE", "CONFIDENCE"}
        /\ line.key = "CONFIDENCE" => line.val = <<"high">>
        /\ line.key = "MODE" => line.val[1] \in {"sequential", "Parallel"}
        /\ line.key = "PRIMARY" => line.val[1] # "SQL"
        /\ line.key = "SUPPORTING" => "bogus" \notin Range(line.val)}

\* str.lower() on a token of a response line.
LowerToken(t) ==
    CASE t = "SQL" -> "sql"
      [] t = "Parallel" -> "parallel"
      [] OTHER -> t

\* The initial value of `result` (router.py, "Default").
ParseDefault ==
    [primary_agent |-> "sql",
     supporting_agents |-> <<>>,
     collaboration_mode |-> "single",
     reasoning |-> [kind |-> "Parsed from router response", detail |-> <<>>],
     confidence |-> "medium"]

InRegistry(a) == a \in available_agents

\* The text after the label as one value: a value with a comma in it is
\* no agent key, mode or confidence.
Scalar(val) == IF Len(val) = 1 THEN LowerToken(val[1]) ELSE "?"

\* The comma separated names taken as they are.
ParsedSupportingUnfiltered(val) == [i \in 1..Len(val) |-> LowerToken(val[i])]

\* [a for a in agents if a in self.available_agents]
ParsedSupporting(val) ==
    SelectSeq([i \in 1..Len(val) |-> LowerToken(val[i])], InRegistry)

\* One iteration of the loop over the response lines.
ParseLine(result, line) ==
    CASE line.key = "PRIMARY" ->
            IF Scalar(line.val) \in available_agents
            THEN [result EXCEPT !.primary_agent = Scalar(line.val)]
            ELSE result
      [] line.key = "SUPPORTING" ->
            IF line.val # <<"none">> /\ line.val # <<>>
            THEN [result EXCEPT
                    !.supporting_agents = ParsedSupporting(line.val)]
            ELSE result
      [] line.key = "MODE" ->
            IF Scalar(line.val) \in {"single", "sequential", "parallel"}
            THEN [result EXCEPT !.collaboration_mode = Scalar(line.val)]
            ELSE result
      [] line.key = "CONFIDENCE" ->
            IF Scalar(line.val) \in {"high", "medium", "low"}
            THEN [result EXCEPT !.confidence = Scalar(line.val)]
            ELSE result
      [] line.key = "REASONING" ->
            [result EXCEPT
                !.reasoning = [kind |-> "Parsed", detail |-> line.val]]
      [] OTHER -> result

\* The test with the general agent as the only default.
FallbackTriggerGeneralOnly(result) ==
    /\ result.primary_agent = "general"
    /\ result.confidence = "medium"

\* The test that replaces the parsed result by keyword matching.
FallbackTrigger(result) ==
    /\ result.primary_agent \in {"sql", "general"}
    /\ result.confidence = "medium"

\* What _parse_routing_response returns once the loop is over.
ParseReturn(result, q) ==
    IF FallbackTrigger(result) THEN _fallback_routing(q) ELSE result

\* str(e) of the exceptions route's try block can raise: the reasoning call
\* failing, and response.content[0] of an answer without content.
RouteFailures == {"api error", "list index out of range"}

\* The except branch defaulting to the parser's initial primary agent.
RouteErrorToSql(e) ==
    [primary_agent |-> "sql",
     supporting_agents |-> <<>>,
     collaboration_mode |-> "single",
     reasoning |-> [kind |-> "Error in routing, defaulting to general agent",
                    detail |-> <<e>>],
     confidence |-> "low"]

\* The decision route returns from its except branch.
RouteError(e) ==
    [primary_agent |-> "general",
     supporting_agents |-> <<>>,
     collaboration_mode |-> "single",
     reasoning |-> [kind |-> "Error in routing, defaulting to general agent",
                    detail |-> <<e>>],
     confidence |-> "low"]

\* ------------------------------------------------------------------------
\* The responder lookup (MultiAgentOrchestrator.agents) and the responders
\* ------------------------------------------------------------------------

\* Keys of self.agents.
agents == {"sql", "csharp", "epicor"}

\* hasattr(agent, 'process'): CSharpAgent and EpicorP21Agent define process,
\* VoiceToSQLAgent defines process_text, process_audio_file and
\* process_microphone only.
HasProcess(agent_key) == agent_key \in {"csharp", "epicor"}

\* agent.agent_name if hasattr(agent, 'agent_name') else agent_key.upper()
AgentName(agent_key) ==
    CASE agent_key = "csharp" -> "C# Specialist"
      [] agent_key = "epicor" -> "Epicor P21 Specialist"
      [] agent_key = "sql" -> "SQL"

\* What a call of agent.process can do: return a result with success True,
\* return the result of its own except branch (success False), or raise.
\* Both results of CSharpAgent.process and of EpicorP21Agent.process carry
\* a "response" entry.
Outcomes ==
    { [raises |-> FALSE, has_response |-> TRUE, success |-> TRUE,
       text |-> <<"answer">>],
      [raises |-> FALSE, has_response |-> TRUE, success |-> FALSE,
       text |-> <<"Error processing query: ", "api error">>],
      [raises |-> TRUE, has_response |-> FALSE, success |-> FALSE,
       text |-> <<"boom">>] }

\* What knowledge_retriever.retrieve can do: raise, or return a text.
RetrieveOutcomes ==
    { [raises |-> TRUE, text |-> <<>>],
      [raises |-> FALSE, text |-> <<"doc">>] }

\* ------------------------------------------------------------------------
\* CollaborationSession
\* ------------------------------------------------------------------------

\* AgentMessage(...) built from the result of process.
ResponseMessage(agent_name, out) ==
    [agent_name |-> agent_name,
     content |-> IF out.has_response THEN out.text ELSE <<"No response">>,
     message_type |-> "response",
     metadata |-> [success |-> out.success, error |-> <<>>]]

\* AgentMessage(...) built in the except branch.
ErrorMessage(agent_name, out) ==
    [agent_name |-> agent_name,
     content |-> <<"Error: ">> \o out.text,
     message_type |-> "error",
     metadata |-> [success |-> FALSE, error |-> out.text]]

\* The message a call of process with the given outcome leads to.
MessageOf(agent_name, out) ==
    IF out.raises THEN ErrorMessage(agent_name, out)
    ELSE ResponseMessage(agent_name, out)

ContextEntry(msg) ==
    [agent |-> msg.agent_name, response |-> msg.content,
     type |-> msg.message_type]

\* CollaborationSession.get_context_for_agent
get_context_for_agent(messages, agent_name) ==
    LET Other(msg) == msg.agent_name # agent_name
        kept == SelectSeq(messages, Other)
    IN  [i \in 1..Len(kept) |-> ContextEntry(kept[i])]

RECURSIVE SynthesisBody(_, _)
\* The loop of synthesize_responses from message i on.
SynthesisBody(messages, i) ==
    IF i > Len(messages) THEN <<>>
    ELSE <<"### ", messages[i].agent_name, "\n\n">>
         \o messages[i].content \o <<"\n\n">>
         \o (IF i < Len(messages) THEN <<"---\n\n">> ELSE <<>>)
         \o SynthesisBody(messages, i + 1)

\* The structured text whatever the number of messages.
SynthesisAlwaysStructured(s) ==
    <<"**Multi-Agent Collaboration Response**\n\n", "Query: ", s.query,
      "\n\n", "---\n\n">> \o SynthesisBody(s.messages, 1)

\* CollaborationSession.synthesize_responses
synthesize_responses(s) ==
    IF Len(s.messages) = 0 THEN <<"No responses available.">>
    ELSE IF Len(s.messages) = 1 THEN s.messages[1].content
    ELSE <<"**Multi-Agent Collaboration Response**\n\n", "Query: ", s.query,
           "\n\n", "---\n\n">> \o SynthesisBody(s.messages, 1)

\* CollaborationSession(query=..., primary_agent=..., ...)
NewSession(q, primary_agent, supporting_agents, mode) ==
    [query |-> q,
     primary_agent |-> primary_agent,
     supporting_agents |-> supporting_agents,
     mode |-> mode,
     messages |-> <<>>,
     status |-> "active",
     final_response |-> None]

\* A strategy that runs the supporting agents before the primary one.
AgentOrderSupportingFirst(s) == s.supporting_agents \o <<s.primary_agent>>

\* [session.primary_agent] + session.supporting_agents
AgentOrder(s) == <<s.primary_agent>> \o s.supporting_agents

\* A sequential strategy that hands the list over as it is, empty or not.
SequentialContextNeverNone(messages, agent_name) ==
    Some(get_context_for_agent(messages, agent_name))

\* collaboration_context of a call in sequential mode:
\* `collaboration_context if collaboration_context else None`
SequentialContext(messages, agent_name) ==
    IF get_context_for_agent(messages, agent_name) # <<>>
    THEN Some(get_context_for_agent(messages, agent_name))
    ELSE None

\* A parallel strategy that shares the earlier outputs as the sequential
\* one does.
ParallelContextShared(messages, agent_name) ==
    IF get_context_for_agent(messages, agent_name) # <<>>
    THEN Some(get_context_for_agent(messages, agent_name))
    ELSE None

\* collaboration_context of a call in parallel mode.
ParallelContext(messages, agent_name) == None

\* collaboration_context of the call in single mode.
SingleContext(messages, agent_name) == None

\* The text of the exception taken as the context.
KnowledgeContextOfError(r) ==
    IF r.raises THEN <<"retrieve failed">> ELSE r.text

\* knowledge_context after the `if knowledge_retriever: try ... except: pass`
KnowledgeContext(r) == IF r.raises THEN <<>> ELSE r.text

\* The new message put in front of the list.
AddMessageInFront(s, msg) == [s EXCEPT !.messages = <<msg>> \o @]

\* session.add_message
add_message(s, msg) == [s EXCEPT !.messages = Append(@, msg)]

\* A synthesis that keeps its text in the session.
SessionAfterSynthesisCached(s) ==
    [s EXCEPT !.final_response = Some(synthesize_responses(s))]

\* The session once synthesize_responses has returned: the method assigns
\* to no attribute of self.
SessionAfterSynthesis(s) == s

\* The status left as it is.
CompletedStaysActive(s) == s

\* session.status = "completed"
Completed(s) == [s EXCEPT !.status = "completed"]

\* The second assignment left out.
FinishedWithoutFinalResponse(s) == SessionAfterSynthesis(Completed(s))

\* The two assignments every strategy ends with.
Finished(s) ==
    [SessionAfterSynthesis(Completed(s)) EXCEPT
        !.final_response = Some(synthesize_responses(Completed(s)))]

\* Python's truth value of final_response: None and "" are false.
Falsy(final_response) ==
    ~final_response.some \/ final_response.v = <<>>

\* CollaborationSession.to_dict
to_dict(s) ==
    [query |-> s.query,
     primary_agent |-> s.primary_agent,
     supporting_agents |-> s.supporting_agents,
     mode |-> s.mode,
     messages |-> s.messages,
     status |-> s.status,
     final_response |-> IF Falsy(s.final_response)
                        THEN synthesize_responses(s)
                        ELSE s.final_response.v]

\* ------------------------------------------------------------------------
\* MultiAgentOrchestrator._build_result
\* ------------------------------------------------------------------------

RECURSIVE LastContent(_, _, _)
\* The content of the last of the first n messages whose agent name is
\* in names; None if there is none.
LastContent(messages, names, n) ==
    IF n = 0 THEN None
    ELSE IF messages[n].agent_name \in names
         THEN Some(messages[n].content)
         ELSE LastContent(messages, names, n - 1)

\* success only when no responder failed.
BuildResultAllSucceeded(s, decision) ==
    [success |-> /\ s.status = "completed"
                 /\ \A i \in 1..Len(s.messages) :
                       s.messages[i].message_type # "error",
     mode |-> s.mode,
     agents_used |-> AgentOrder(s),
     routing_confidence |-> decision.confidence,
     query |-> s.query,
     final_response |-> s.final_response,
     sql |-> LastContent(s.messages, {"SQL"}, Len(s.messages)),
     csharp_response |->
        LastContent(s.messages, {"C# Specialist"}, Len(s.messages)),
     epicor_response |->
        LastContent(s.messages, {"Epicor P21 Specialist"}, Len(s.messages)),
     collaboration_session |-> Some(to_dict(s)),
     execution_error |-> None]

_build_result(s, decision) ==
    [success |-> s.status = "completed",
     mode |-> s.mode,
     agents_used |-> AgentOrder(s),
     routing_confidence |-> decision.confidence,
     query |-> s.query,
     final_response |-> s.final_response,
     sql |-> LastContent(s.messages, {"SQL"}, Len(s.messages)),
     csharp_response |->
        LastContent(s.messages, {"C# Specialist"}, Len(s.messages)),
     epicor_response |->
        LastContent(s.messages, {"Epicor P21 Specialist"}, Len(s.messages)),
     collaboration_session |-> Some(to_dict(s)),
     execution_error |-> None]

\* The MultiAgentResult built in the except branch of process_query.
ErrorResult(q, decision) ==
    [success |-> FALSE,
     mode |-> decision.collaboration_mode,
     agents_used |-> <<decision.primary_agent>>,
     routing_confidence |-> decision.confidence,
     query |-> q,
     final_response |-> None,
     sql |-> None,
     csharp_response |-> None,
     epicor_response |-> None,
     collaboration_session |-> None,
     execution_error |-> Some(<<"status callback failed">>)]

\* ------------------------------------------------------------------------
\* State
\* ------------------------------------------------------------------------

\* ------------------------------------------------------------------------
\* RateLimiter (security/rate_limiter.py), for one identifier and one tier
\* ------------------------------------------------------------------------

Windows == <<"second", "minute", "hour", "day">>

\* self.limits[tier]: (requests, time_window_seconds) of each window, in
\* ticks of the clock.
limits ==
    [second |-> [max_requests |-> SecondLimit, window_seconds |-> SecondWindow],
     minute |-> [max_requests |-> MinuteLimit, window_seconds |-> MinuteWindow],
     hour |-> [max_requests |-> HourLimit, window_seconds |-> HourWindow],
     day |-> [max_requests |-> DayLimit, window_seconds |-> DayWindow]]

\* RateLimiter(): empty deques, last_cleanup = time.time(). `admitted` keeps
\* the time of every request that was let in, `allowed` and `reason` the
\* latest answer of is_allowed (the reason: the window that was full).
NewRateLimiter ==
    [request_history |-> [w \in Range(Windows) |-> <<>>],
     last_cleanup |-> 1,
     admitted |-> <<>>,
     allowed |-> None,
     reason |-> None]

RECURSIVE Pruned(_, _)
\* while history and history[0] < cutoff: history.popleft()
Pruned(history, cutoff) ==
    IF history # <<>> /\ Head(history) < cutoff
    THEN Pruned(Tail(history), cutoff)
    ELSE history

\* The limit test letting in one request too many.
CheckLimitOffByOne(history, max_requests, window_seconds, now) ==
    LET kept == Pruned(history, now - window_seconds)
    IN  [is_allowed |-> Len(kept) <= max_requests,
         requests_made |-> Len(kept),
         history |-> kept]

\* RateLimiter._check_limit, with the deque it leaves behind.
_check_limit(history, max_requests, window_seconds, now) ==
    LET kept == Pruned(history, now - window_seconds)
    IN  [is_allowed |-> ~(Len(kept) >= max_requests),
         requests_made |-> Len(kept),
         history |-> kept]

RECURSIVE CheckWindows(_, _, _)
\* The loop of is_allowed over the windows from the i-th on: it stops at the
\* first window that is full. times[i] is what time.time() returns to the
\* i-th call of _check_limit.
CheckWindows(request_history, i, times) ==
    IF i > Len(Windows)
    THEN [is_allowed |-> TRUE, reason |-> None,
          request_history |-> request_history]
    ELSE LET window == Windows[i]
             check == _check_limit(request_history[window],
                                   limits[window].max_requests,
                                   limits[window].window_seconds, times[i])
             pruned == [request_history EXCEPT ![window] = check.history]
         IN  IF check.is_allowed
             THEN CheckWindows(pruned, i + 1, times)
             ELSE [is_allowed |-> FALSE, reason |-> Some(window),
                   request_history |-> pruned]

\* request_history[identifier][window].append(now), for every window
Recorded(request_history, now) ==
    [w \in DOMAIN request_history |-> Append(request_history[w], now)]

\* RateLimiter._cleanup_old_entries
_cleanup_old_entries(l, now) ==
    IF now - l.last_cleanup < CleanupInterval THEN l
    ELSE [l EXCEPT
            !.request_history =
                [w \in DOMAIN @ |-> Pruned(@[w], now - DayWindow)],
            !.last_cleanup = now]

\* RateLimiter.is_allowed: the i-th window is tested at time times[i], the
\* request is recorded at the last of the times.
is_allowed(l, times) ==
    LET checked == CheckWindows(l.request_history, 1, times)
        now == times[Len(times)]
    IN  IF checked.is_allowed
        THEN _cleanup_old_entries(
                [l EXCEPT
                    !.request_history = Recorded(checked.request_history, now),
                    !.admitted = Append(@, now),
                    !.allowed = Some(TRUE),
                    !.reason = None],
                now)
        ELSE [l EXCEPT !.request_history = checked.request_history,
                       !.allowed = Some(FALSE),
                       !.reason = checked.reason]

\* ------------------------------------------------------------------------
\* AuthManager (security/auth.py), for one identifier
\* ------------------------------------------------------------------------

\* AuthManager(): failed_attempts = {}. `failed_attempts` is the entry of the
\* identifier, if there is one; `failed_logins` keeps the times of the calls
\* of record_failed_login since the latest record_successful_login, `called`
\* the method called last and `answer` what that call, if it was
\* is_account_locked, returned and when.
NewAuthManager ==
    [failed_attempts |-> None, failed_logins |-> <<>>, called |-> "__init__",
     answer |-> None]

\* What a call of is_account_locked leaves behind when it returns `locked`.
Answered(a, locked, now) ==
    [a EXCEPT !.called = "is_account_locked",
              !.answer = Some([locked |-> locked, at |-> now])]

\* The test of a lockout `until`, at time now
LockedAt(until, now) == now < until

\* AuthManager.is_account_locked
is_account_locked(a, now) ==
    IF ~a.failed_attempts.some
    THEN Answered(a, FALSE, now)
    ELSE LET attempts == a.failed_attempts.v
         IN  IF attempts.locked_until.some
             THEN IF LockedAt(attempts.locked_until.v, now)
                  THEN Answered(a, TRUE, now)
                  ELSE Answered([a EXCEPT !.failed_attempts = None],
                                FALSE, now)
             ELSE Answered(a, FALSE, now)

\* AuthManager.record_failed_login
record_failed_login(a, now) ==
    LET attempts ==
            IF a.failed_attempts.some THEN a.failed_attempts.v
            ELSE [count |-> 0, locked_until |-> None]
        count == attempts.count + 1
    IN  [a EXCEPT
            !.failed_attempts =
                Some([count |-> count,
                      locked_until |->
                          IF count >= MAX_LOGIN_ATTEMPTS
                          THEN Some(now + LockoutDuration)
                          ELSE attempts.locked_until]),
            !.failed_logins = Append(@, now),
            !.called = "record_failed_login",
            !.answer = None]

\* AuthManager.record_successful_login
record_successful_login(a) ==
    [a EXCEPT !.failed_attempts = None,
              !.failed_logins = <<>>,
              !.called = "record_successful_login",
              !.answer = None]

VARIABLES
    pc,                  \* position of the run inside process_query
    query,               \* the argument of process_query
    knowledge_retriever, \* TRUE iff self.knowledge_retriever is not None
    parsed,              \* `result` of _parse_routing_response
    routing,             \* the decision returned by route
    session,             \* the CollaborationSession of the run
    active_sessions,     \* the manager's dict: session id and owning run
    idx,                 \* position of the strategy's loop in its agent list
    calls,               \* the calls of agent.process made so far
    knowledge_context,   \* knowledge_context of the latest of these calls
    retrieval,           \* what retrieve did for the latest of these calls
    result,              \* what process_query returned
    synthesized,         \* the texts synthesize_responses returned so far
    clock,               \* what datetime.now() returns
    run,                 \* the number of the run of process_query
    limiter,             \* the RateLimiter, for one identifier
    auth                 \* the AuthManager, for one identifier

vars == <<pc, query, knowledge_retriever, parsed, routing, session,
          active_sessions, idx, calls, knowledge_context, retrieval,
          result, synthesized, clock, run, limiter, auth>>

Init ==
    /\ pc = "start"
    /\ query \in RunQueries
    /\ knowledge_retriever \in BOOLEAN
    /\ parsed = ParseDefault
    /\ routing = None
    /\ session = None
    /\ active_sessions = {}
    /\ idx = 1
    /\ calls = <<>>
    /\ knowledge_context = <<>>
    /\ retrieval = "none"
    /\ result = None
    /\ synthesized = <<>>
    /\ clock = 1
    /\ run = 1
    /\ limiter = NewRateLimiter
    /\ auth = NewAuthManager

\* What retrieve can do for the strategy: nothing when there is no retriever.
Retrievals ==
    IF knowledge_retriever THEN RetrieveOutcomes
    ELSE {[raises |-> FALSE, text |-> <<>>]}

\* One call of agent.process as the log keeps it: the key of the agent, its
\* position in the strategy's agent list, the collaboration_context argument
\* and whether the call raised.
Call(agent_key, position, context, out) ==
    [agent |-> agent_key, position |-> position,
     collaboration_context |-> context, raised |-> out.raises]

\* The end of a strategy on session s: status, the call of
\* synthesize_responses and the assignment of its text to final_response.
Finish(s) ==
    /\ session' = Some(Finished(s))
    /\ synthesized' = Append(synthesized, synthesize_responses(Completed(s)))

\* self.active_sessions[session_id] = session: the entry of this id, if
\* there is one, is replaced.
Stored(sessions, session_id, owner) ==
    {e \in sessions : e.session_id # session_id}
       \cup {[session_id |-> session_id, owner |-> owner]}

\* What the retrieval of outcome r did: nothing without a retriever, else it
\* raised or returned.
RetrievalOf(r) ==
    IF ~knowledge_retriever THEN "none"
    ELSE IF r.raises THEN "raised" ELSE "returned"

\* ------------------------------------------------------------------------
\* MultiAgentOrchestrator.process_query, up to the session
\* ------------------------------------------------------------------------

\* self._status("Analyzing query ...") returns.
StatusAnalyzing ==
    /\ pc = "start"
    /\ pc' = "route"
    /\ UNCHANGED <<query, knowledge_retriever, parsed, routing, session,
                   active_sessions, idx, calls, knowledge_context, retrieval,
                   result, synthesized, clock, run,
                   limiter, auth>>

\* A _status call outside the try block raises (the on_status callback or
\* print fails): the exception leaves process_query.
StatusRaisesOutside ==
    /\ pc \in {"start", "routed"}
    /\ pc' = "propagated"
    /\ UNCHANGED <<query, knowledge_retriever, parsed, routing, session,
                   active_sessions, idx, calls, knowledge_context, retrieval,
                   result, synthesized, clock, run,
                   limiter, auth>>

\* route: the reasoning call returns a text, parsing starts.
RouteCall ==
    /\ pc = "route"
    /\ parsed' = ParseDefault
    /\ pc' = "parse"
    /\ UNCHANGED <<query, knowledge_retriever, routing, session,
                   active_sessions, idx, calls, knowledge_context, retrieval,
                   result, synthesized, clock, run,
                   limiter, auth>>

\* route: the reasoning call (or reading its response) raises.
RouteFails ==
    /\ pc = "route"
    /\ \E e \in RouteFailures : routing' = Some(RouteError(e))
    /\ pc' = "routed"
    /\ UNCHANGED <<query, knowledge_retriever, parsed, session,
                   active_sessions, idx, calls, knowledge_context, retrieval,
                   result, synthesized, clock, run,
                   limiter, auth>>

\* _parse_routing_response: one line of the response, out of `lines`.
ParseOneOf(lines) ==
    /\ pc = "parse"
    /\ \E line \in lines : parsed' = ParseLine(parsed, line)
    /\ UNCHANGED <<pc, query, knowledge_retriever, routing, session,
                   active_sessions, idx, calls, knowledge_context, retrieval,
                   result, synthesized, clock, run,
                   limiter, auth>>

ParseStep == ParseOneOf(Lines)

RunParseStep == ParseOneOf(RunLines)

\* _parse_routing_response: the response is exhausted; route returns.
ParseEnd ==
    /\ pc = "parse"
    /\ routing' = Some(ParseReturn(parsed, query))
    /\ pc' = "routed"
    /\ UNCHANGED <<query, knowledge_retriever, parsed, session,
                   active_sessions, idx, calls, knowledge_context, retrieval,
                   result, synthesized, clock, run,
                   limiter, auth>>

\* The _status calls that report the routing decision return.
StatusDecision ==
    /\ pc = "routed"
    /\ pc' = "create"
    /\ UNCHANGED <<query, knowledge_retriever, parsed, routing, session,
                   active_sessions, idx, calls, knowledge_context, retrieval,
                   result, synthesized, clock, run,
                   limiter, auth>>

\* CollaborationManager.create_session
CreateSession ==
    /\ pc = "create"
    /\ session' = Some(NewSession(query, routing.v.primary_agent,
                                  routing.v.supporting_agents,
                                  routing.v.collaboration_mode))
    /\ active_sessions' = Stored(active_sessions, clock, run)
    /\ pc' = "dispatch"
    /\ UNCHANGED <<query, knowledge_retriever, parsed, routing, idx, calls,
                   knowledge_context, retrieval,
                   result, synthesized, clock, run,
                   limiter, auth>>

\* The _status call of the selected branch returns: the strategy starts.
Dispatch ==
    /\ pc = "dispatch"
    /\ pc' = session.v.mode
    /\ idx' = 1
    /\ UNCHANGED <<query, knowledge_retriever, parsed, routing, session,
                   active_sessions, calls, knowledge_context, retrieval,
                   result, synthesized, clock, run,
                   limiter, auth>>

\* A _status call inside the try block raises: control goes to the handler.
StatusRaisesInside ==
    /\ pc \in {"dispatch", "complete"}
    /\ pc' = "except"
    /\ UNCHANGED <<query, knowledge_retriever, parsed, routing, session,
                   active_sessions, idx, calls, knowledge_context, retrieval,
                   result, synthesized, clock, run,
                   limiter, auth>>

\* ------------------------------------------------------------------------
\* CollaborationManager: the three strategies
\* ------------------------------------------------------------------------

\* execute_single_agent, the primary is not in the lookup.
SingleUnknown ==
    /\ pc = "single"
    /\ session.v.primary_agent \notin agents
    /\ session' = Some([session.v EXCEPT !.status = "failed"])
    /\ pc' = "complete"
    /\ UNCHANGED <<query, knowledge_retriever, parsed, routing,
                   active_sessions, idx, calls, knowledge_context, retrieval,
                   result, synthesized, clock, run,
                   limiter, auth>>

\* execute_single_agent, the primary is in the lookup.
SingleAgent ==
    /\ pc = "single"
    /\ session.v.primary_agent \in agents
    /\ LET agent_key == session.v.primary_agent
           agent_name == AgentName(agent_key)
       IN  \E r \in Retrievals :
             IF HasProcess(agent_key)
             THEN \E out \in Outcomes :
                    /\ knowledge_context' = KnowledgeContext(r)
                    /\ retrieval' = RetrievalOf(r)
                    /\ calls' = Append(calls,
                          Call(agent_key, 1,
                               SingleContext(session.v.messages, agent_name),
                               out))
                    /\ Finish(add_message(session.v,
                                          MessageOf(agent_name, out)))
             ELSE /\ UNCHANGED <<calls, knowledge_context, retrieval>>
                  /\ Finish(session.v)
    /\ pc' = "complete"
    /\ UNCHANGED <<query, knowledge_retriever, parsed, routing,
                   active_sessions, idx, result, clock, run,
                   limiter, auth>>

\* execute_sequential_collaboration: one iteration of the loop.
SequentialStep ==
    /\ pc = "sequential"
    /\ idx <= Len(AgentOrder(session.v))
    /\ LET agent_key == AgentOrder(session.v)[idx]
       IN  IF agent_key \notin agents
           THEN UNCHANGED <<session, calls, knowledge_context, retrieval>>
           ELSE \E r \in Retrievals :
                  IF HasProcess(agent_key)
                  THEN \E out \in Outcomes :
                         /\ knowledge_context' = KnowledgeContext(r)
                         /\ retrieval' = RetrievalOf(r)
                         /\ calls' = Append(calls,
                               Call(agent_key, idx,
                                    SequentialContext(session.v.messages,
                                                      AgentName(agent_key)),
                                    out))
                         /\ session' = Some(add_message(session.v,
                               MessageOf(AgentName(agent_key), out)))
                  ELSE UNCHANGED <<session, calls, knowledge_context,
                                    retrieval>>
    /\ idx' = idx + 1
    /\ UNCHANGED <<pc, query, knowledge_retriever, parsed, routing,
                   active_sessions, result,
                   synthesized, clock, run,
                   limiter, auth>>

\* execute_sequential_collaboration: after the loop.
SequentialEnd ==
    /\ pc = "sequential"
    /\ idx > Len(AgentOrder(session.v))
    /\ Finish(session.v)
    /\ pc' = "complete"
    /\ UNCHANGED <<query, knowledge_retriever, parsed, routing,
                   active_sessions, idx, calls, knowledge_context, retrieval,
                   result, clock, run,
                   limiter, auth>>

\* execute_parallel_collaboration: one iteration of the loop.
ParallelStep ==
    /\ pc = "parallel"
    /\ idx <= Len(AgentOrder(session.v))
    /\ LET agent_key == AgentOrder(session.v)[idx]
       IN  IF agent_key \notin agents
           THEN UNCHANGED <<session, calls, knowledge_context, retrieval>>
           ELSE \E r \in Retrievals :
                  IF HasProcess(agent_key)
                  THEN \E out \in Outcomes :
                         /\ knowledge_context' = KnowledgeContext(r)
                         /\ retrieval' = RetrievalOf(r)
                         /\ calls' = Append(calls,
                               Call(agent_key, idx,
                                    ParallelContext(session.v.messages,
                                                    AgentName(agent_key)),
                                    out))
                         /\ session' = Some(add_message(session.v,
                               MessageOf(AgentName(agent_key), out)))
                  ELSE UNCHANGED <<session, calls, knowledge_context,
                                    retrieval>>
    /\ idx' = idx + 1
    /\ UNCHANGED <<pc, query, knowledge_retriever, parsed, routing,
                   active_sessions, result,
                   synthesized, clock, run,
                   limiter, auth>>

\* execute_parallel_collaboration: after the loop.
ParallelEnd ==
    /\ pc = "parallel"
    /\ idx > Len(AgentOrder(session.v))
    /\ Finish(session.v)
    /\ pc' = "complete"
    /\ UNCHANGED <<query, knowledge_retriever, parsed, routing,
                   active_sessions, idx, calls, knowledge_context, retrieval,
                   result, clock, run,
                   limiter, auth>>

\* ------------------------------------------------------------------------
\* MultiAgentOrchestrator.process_query, after the strategy
\* ------------------------------------------------------------------------

\* self._status("Collaboration complete!") returns.
StatusComplete ==
    /\ pc = "complete"
    /\ pc' = "build"
    /\ UNCHANGED <<query, knowledge_retriever, parsed, routing, session,
                   active_sessions, idx, calls, knowledge_context, retrieval,
                   result, synthesized, clock, run,
                   limiter, auth>>

\* result = self._build_result(session, routing); return result. Its
\* session.to_dict() calls synthesize_responses when final_response is false.
BuildResult ==
    /\ pc = "build"
    /\ result' = Some(_build_result(session.v, routing.v))
    /\ IF Falsy(session.v.final_response)
       THEN /\ synthesized' =
                  Append(synthesized, synthesize_responses(session.v))
            /\ session' = Some(SessionAfterSynthesis(session.v))
       ELSE UNCHANGED <<session, synthesized>>
    /\ pc' = "done"
    /\ UNCHANGED <<query, knowledge_retriever, parsed, routing,
                   active_sessions, idx, calls, knowledge_context, retrieval, clock, run,
                   limiter, auth>>

\* The except branch: its _status call returns, the error result is returned.
ExceptReturn ==
    /\ pc = "except"
    /\ result' = Some(ErrorResult(query, routing.v))
    /\ pc' = "done"
    /\ UNCHANGED <<query, knowledge_retriever, parsed, routing, session,
                   active_sessions, idx, calls, knowledge_context, retrieval,
                   synthesized, clock, run,
                   limiter, auth>>

\* The except branch: its own _status call raises, out of process_query.
ExceptRaises ==
    /\ pc = "except"
    /\ pc' = "propagated"
    /\ UNCHANGED <<query, knowledge_retriever, parsed, routing, session,
                   active_sessions, idx, calls, knowledge_context, retrieval,
                   result, synthesized, clock, run,
                   limiter, auth>>

Next ==
    \/ StatusAnalyzing
    \/ StatusRaisesOutside
    \/ RouteCall
    \/ RouteFails
    \/ RunParseStep
    \/ ParseEnd
    \/ StatusDecision
    \/ CreateSession
    \/ Dispatch
    \/ StatusRaisesInside
    \/ SingleUnknown
    \/ SingleAgent
    \/ SequentialStep
    \/ SequentialEnd
    \/ ParallelStep
    \/ ParallelEnd
    \/ StatusComplete
    \/ BuildResult
    \/ ExceptReturn
    \/ ExceptRaises

Spec == Init /\ [][Next]_vars

\* A run of process_query that has started keeps running: the interpreter
\* executes the next statement, and every call it waits for returns or
\* raises.
SpecFair == Spec /\ WF_vars(Next)

\* route called on its own, for every query.
InitRoute ==
    /\ pc = "route"
    /\ query \in Queries
    /\ knowledge_retriever = FALSE
    /\ parsed = ParseDefault
    /\ routing = None
    /\ session = None
    /\ active_sessions = {}
    /\ idx = 1
    /\ calls = <<>>
    /\ knowledge_context = <<>>
    /\ retrieval = "none"
    /\ result = None
    /\ synthesized = <<>>
    /\ clock = 1
    /\ run = 1
    /\ limiter = NewRateLimiter
    /\ auth = NewAuthManager

NextRoute ==
    \/ RouteCall
    \/ RouteFails
    \/ ParseStep
    \/ ParseEnd

SpecRoute == InitRoute /\ [][NextRoute]_vars

\* synthesize_responses called on its own, on sessions that are still active
\* and on sessions a strategy has finished.
SynthMessages ==
    {MessageOf(AgentName(a), out) : a \in {"csharp", "epicor"},
                                    out \in Outcomes}

SynthSessions(q) ==
    LET active == {[NewSession(q, "csharp", <<"epicor">>, "sequential")
                      EXCEPT !.messages = ms] :
                      ms \in SeqsUpTo(SynthMessages, MaxMessages)}
    IN  active \cup {Finished(s) : s \in active}

InitSynth ==
    /\ pc = "synth"
    /\ query \in RunQueries
    /\ knowledge_retriever = FALSE
    /\ parsed = ParseDefault
    /\ routing = None
    /\ session \in {Some(s) : s \in SynthSessions(query)}
    /\ active_sessions = {[session_id |-> 1, owner |-> 1]}
    /\ idx = 1
    /\ calls = <<>>
    /\ knowledge_context = <<>>
    /\ retrieval = "none"
    /\ result = None
    /\ synthesized = <<>>
    /\ clock = 1
    /\ run = 1
    /\ limiter = NewRateLimiter
    /\ auth = NewAuthManager

\* A caller invokes session.synthesize_responses().
SynthesizeCall ==
    /\ pc = "synth"
    /\ Len(synthesized) < MaxSynthCalls
    /\ synthesized' = Append(synthesized, synthesize_responses(session.v))
    /\ session' = Some(SessionAfterSynthesis(session.v))
    /\ UNCHANGED <<pc, query, knowledge_retriever, parsed, routing,
                   active_sessions, idx, calls, knowledge_context, retrieval,
                   result, clock, run,
                   limiter, auth>>

NextSynth == SynthesizeCall

SpecSynth == InitSynth /\ [][NextSynth]_vars

\* create_session in several runs of process_query on one orchestrator: each
\* run is followed up to its session, the next one starts while or after the
\* one before runs its strategy.
InitSessions ==
    /\ pc = "create"
    /\ query \in RunQueries
    /\ knowledge_retriever = FALSE
    /\ parsed = ParseDefault
    /\ routing \in {Some(d) : d \in {_fallback_routing(query)}
                                   \cup {RouteError(e) : e \in RouteFailures}}
    /\ session = None
    /\ active_sessions = {}
    /\ idx = 1
    /\ calls = <<>>
    /\ knowledge_context = <<>>
    /\ retrieval = "none"
    /\ result = None
    /\ synthesized = <<>>
    /\ clock = 1
    /\ run = 1
    /\ limiter = NewRateLimiter
    /\ auth = NewAuthManager

\* Time passes: datetime.now() returns a later value.
Tick ==
    /\ clock < MaxClock
    /\ clock' = clock + 1
    /\ UNCHANGED <<pc, query, knowledge_retriever, parsed, routing, session,
                   active_sessions, idx, calls, knowledge_context, retrieval,
                   result, synthesized, run,
                   limiter, auth>>

\* The next call of process_query on this orchestrator reaches create_session.
NextRun ==
    /\ pc = "dispatch"
    /\ run < MaxRuns
    /\ run' = run + 1
    /\ session' = None
    /\ pc' = "create"
    /\ UNCHANGED <<query, knowledge_retriever, parsed, routing,
                   active_sessions, idx, calls, knowledge_context, retrieval,
                   result, synthesized, clock,
                   limiter, auth>>

NextSessions ==
    \/ CreateSession
    \/ Tick
    \/ NextRun

SpecSessions == InitSessions /\ [][NextSessions]_vars

\* is_allowed called for one identifier, again and again, while time passes.
InitRate ==
    /\ pc = "limiter"
    /\ query \in RunQueries
    /\ knowledge_retriever = FALSE
    /\ parsed = ParseDefault
    /\ routing = None
    /\ session = None
    /\ active_sessions = {}
    /\ idx = 1
    /\ calls = <<>>
    /\ knowledge_context = <<>>
    /\ retrieval = "none"
    /\ result = None
    /\ synthesized = <<>>
    /\ clock = 1
    /\ run = 1
    /\ limiter = NewRateLimiter
    /\ auth = NewAuthManager

\* The readings of time.time() during one call of is_allowed, which start at
\* `now`: one for each window and one for the recording. The clock advances
\* at most once meanwhile.
Readings(now) ==
    {[i \in 1..(Len(Windows) + 1) |-> IF i <= k THEN now ELSE now + 1] :
        k \in 0..(Len(Windows) + 1)}

\* A request: is_allowed(identifier, tier).
IsAllowed ==
    /\ pc = "limiter"
    /\ \E times \in Readings(clock) :
          /\ times[Len(times)] <= MaxClock
          /\ limiter' = is_allowed(limiter, times)
          /\ clock' = IF limiter'.allowed = Some(TRUE)
                      THEN times[Len(times)]
                      ELSE clock
    /\ UNCHANGED <<pc, query, knowledge_retriever, parsed, routing, session,
                   active_sessions, idx, calls, knowledge_context, retrieval,
                   result, synthesized, run, auth>>

NextRate ==
    \/ IsAllowed
    \/ Tick

SpecRate == InitRate /\ [][NextRate]_vars

\* The lockout calls of an AuthManager for one identifier, in any order,
\* while time passes.
InitAuth ==
    /\ pc = "auth"
    /\ query \in RunQueries
    /\ knowledge_retriever = FALSE
    /\ parsed = ParseDefault
    /\ routing = None
    /\ session = None
    /\ active_sessions = {}
    /\ idx = 1
    /\ calls = <<>>
    /\ knowledge_context = <<>>
    /\ retrieval = "none"
    /\ result = None
    /\ synthesized = <<>>
    /\ clock = 1
    /\ run = 1
    /\ limiter = NewRateLimiter
    /\ auth = NewAuthManager

IsAccountLocked ==
    /\ pc = "auth"
    /\ auth' = is_account_locked(auth, clock)
    /\ UNCHANGED <<pc, query, knowledge_retriever, parsed, routing, session,
                   active_sessions, idx, calls, knowledge_context, retrieval,
                   result, synthesized, clock, run, limiter>>

RecordFailedLogin ==
    /\ pc = "auth"
    /\ Len(auth.failed_logins) < MaxFailedLogins
    /\ auth' = record_failed_login(auth, clock)
    /\ UNCHANGED <<pc, query, knowledge_retriever, parsed, routing, session,
                   active_sessions, idx, calls, knowledge_context, retrieval,
                   result, synthesized, clock, run, limiter>>

RecordSuccessfulLogin ==
    /\ pc = "auth"
    /\ auth' = record_successful_login(auth)
    /\ UNCHANGED <<pc, query, knowledge_retriever, parsed, routing, session,
                   active_sessions, idx, calls, knowledge_context, retrieval,
                   result, synthesized, clock, run, limiter>>

NextAuth ==
    \/ IsAccountLocked
    \/ RecordFailedLogin
    \/ RecordSuccessfulLogin
    \/ Tick

SpecAuth == InitAuth /\ [][NextAuth]_vars

\* ------------------------------------------------------------------------
\* Properties
\* ------------------------------------------------------------------------

\* The strategy selected by the session's mode has just returned.
StrategyReturned == pc \in {"complete", "build"}

\* The routing decision's order: primary first, then the supporting agents.
DeclaredOrder(s) == <<s.primary_agent>> \o s.supporting_agents

NamesOf(messages) == [i \in 1..Len(messages) |-> messages[i].agent_name]

InLookup(agent_key) == agent_key \in agents

\* The names under which the entries of the declared order that are in the
\* responder lookup record their messages.
DeclaredNames(s) ==
    LET keys == SelectSeq(DeclaredOrder(s), InLookup)
    IN  [i \in 1..Len(keys) |-> AgentName(keys[i])]

RECURSIVE IsSubsequence(_, _)
IsSubsequence(a, b) ==
    IF a = <<>> THEN TRUE
    ELSE IF b = <<>> THEN FALSE
    ELSE IF Head(a) = Head(b) THEN IsSubsequence(Tail(a), Tail(b))
    ELSE IsSubsequence(a, Tail(b))

ContextList(c) == IF c.some THEN c.v ELSE <<>>

NoDuplicates(seq) ==
    \A i, j \in 1..Len(seq) : i # j => seq[i] # seq[j]

\* C1: in every mode, when the session's primary agent is not a key of the
\* responder lookup, no responder is invoked, the message list stays empty,
\* the strategy leaves the session failed and process_query returns
\* success = false.
C1_UnknownPrimaryIsFatal ==
    (session.some /\ session.v.primary_agent \notin agents) =>
        /\ calls = <<>>
        /\ session.v.messages = <<>>
        /\ StrategyReturned => session.v.status = "failed"
        /\ pc = "done" => ~result.v.success

\* C2: process_query never lets an exception out: whatever step raises, the
\* run ends by returning a result.
C2_NeverPropagates ==
    /\ pc # "propagated"
    /\ pc = "done" => result.some

\* C3: sequential mode, primary P and supporting <<S1, S2>> all in the
\* lookup: if the call of S1 raised, the strategy returns a completed
\* session that holds an error message of S1 and messages of P and of S2.
C3_FailureIsolation ==
    ( /\ StrategyReturned
      /\ session.v.mode = "sequential"
      /\ Len(session.v.supporting_agents) = 2
      /\ \A i \in 1..3 : DeclaredOrder(session.v)[i] \in agents
      /\ \E n \in 1..Len(calls) : calls[n].position = 2 /\ calls[n].raised )
    => LET s == session.v
           HasMessage(agent_key) ==
               \E i \in 1..Len(s.messages) :
                   s.messages[i].agent_name = AgentName(agent_key)
       IN  /\ s.status = "completed"
           /\ \E i \in 1..Len(s.messages) :
                 /\ s.messages[i].agent_name = AgentName(s.supporting_agents[1])
                 /\ s.messages[i].message_type = "error"
           /\ HasMessage(s.primary_agent)
           /\ HasMessage(s.supporting_agents[2])

\* C4: in sequential and in parallel mode the messages of the session follow
\* the declared order, primary first and then the supporting agents as the
\* routing decision lists them: one message per call, the calls walk the
\* declared order upwards, and each message carries the name of the agent
\* declared at the position of its call.
C4_DeclaredOrderKept ==
    (session.some /\ session.v.mode \in {"sequential", "parallel"}) =>
        LET s == session.v
        IN  /\ Len(s.messages) = Len(calls)
            /\ \A n, m \in 1..Len(calls) :
                  n < m => calls[n].position < calls[m].position
            /\ \A n \in 1..Len(calls) :
                  /\ calls[n].position \in 1..Len(DeclaredOrder(s))
                  /\ DeclaredOrder(s)[calls[n].position] \in agents
                  /\ s.messages[n].agent_name =
                        AgentName(DeclaredOrder(s)[calls[n].position])
            /\ IsSubsequence(NamesOf(s.messages), DeclaredNames(s))

\* A finished sequential run whose supporting agents are listed against the
\* registry order and have recorded their messages in the listed order.
C4_Witness ==
    /\ pc = "done"
    /\ session.some
    /\ session.v.mode = "sequential"
    /\ session.v.primary_agent = "sql"
    /\ session.v.supporting_agents = <<"epicor", "csharp">>
    /\ NamesOf(session.v.messages) =
          <<"Epicor P21 Specialist", "C# Specialist">>

\* C5: in sequential mode the collaboration context of every call is made
\* of exactly the messages recorded by the calls before it, in arrival
\* order.
C5_ContextIsEveryEarlierOutput ==
    (session.some /\ session.v.mode = "sequential") =>
        \A n \in 1..Len(calls) :
            ContextList(calls[n].collaboration_context) =
                [i \in 1..(n - 1) |-> ContextEntry(session.v.messages[i])]

\* C6: in single and in parallel mode every call of a responder gets None
\* as its collaboration context.
C6_NoContextOutsideSequential ==
    (session.some /\ session.v.mode \in {"single", "parallel"}) =>
        \A n \in 1..Len(calls) : calls[n].collaboration_context = None

\* A parallel run whose third call was made while the session already held
\* the messages of two other calls.
C6_Witness ==
    /\ session.some
    /\ session.v.mode = "parallel"
    /\ Len(calls) = 3
    /\ Len(session.v.messages) = 3
    /\ session.v.messages[1].agent_name # session.v.messages[3].agent_name

\* C7 as stated: in sequential mode no call gets None as its collaboration
\* context.
C7_SequentialContextNeverNone ==
    (session.some /\ session.v.mode = "sequential") =>
        \A n \in 1..Len(calls) : calls[n].collaboration_context.some

\* C7 as amended: in sequential mode a call gets None exactly when no
\* message of another agent exists yet, and otherwise the non-empty list of
\* the messages of the other agents; it never gets an empty list.
C7_NoneIffNothingToShare ==
    (session.some /\ session.v.mode = "sequential") =>
        \A n \in 1..Len(calls) :
            LET c == calls[n].collaboration_context
                others == {i \in 1..(n - 1) :
                              session.v.messages[i].agent_name #
                                  AgentName(calls[n].agent)}
            IN  /\ c.some <=> others # {}
                /\ c.some => Len(c.v) = Cardinality(others) /\ c.v # <<>>

\* A sequential run whose first call got None and whose second call got a
\* list.
C7_Witness ==
    /\ session.some
    /\ session.v.mode = "sequential"
    /\ Len(calls) >= 2
    /\ ~calls[1].collaboration_context.some
    /\ calls[2].collaboration_context.some

\* C8: single mode with a primary agent that is in the lookup: the strategy
\* calls the primary agent only and returns a session of exactly one
\* message, a response or an error.
C8_SingleRecordsOneMessage ==
    ( /\ StrategyReturned
      /\ session.v.mode = "single"
      /\ session.v.primary_agent \in agents )
    => /\ Len(calls) = 1
       /\ calls[1].agent = session.v.primary_agent
       /\ Len(session.v.messages) = 1
       /\ session.v.messages[1].message_type \in {"response", "error"}

\* C9: a routing decision with an empty supporting list has mode single.
C9_EmptySupportingIsSingle ==
    routing.some =>
        (routing.v.supporting_agents = <<>>
            => routing.v.collaboration_mode = "single")

\* C10: the supporting list of a routing decision has no duplicate and does
\* not hold the primary agent.
C10_SupportingDistinctWithoutPrimary ==
    routing.some =>
        /\ NoDuplicates(routing.v.supporting_agents)
        /\ \A i \in 1..Len(routing.v.supporting_agents) :
              routing.v.supporting_agents[i] # routing.v.primary_agent

\* C11: route never raises: a failure of the reasoning call or of reading its
\* answer leaves route with a decision, and this decision names the general
\* agent as primary, has no supporting agent, mode single, confidence low and
\* a reasoning that names the failure.
C11_RouteFailureDefaultsToGeneral ==
    [][(pc = "route" =>
            /\ pc' \in {"parse", "routed"}
            /\ pc' = "routed" =>
                  /\ routing'.some
                  /\ routing'.v.primary_agent = "general"
                  /\ routing'.v.supporting_agents = <<>>
                  /\ routing'.v.collaboration_mode = "single"
                  /\ routing'.v.confidence = "low"
                  /\ routing'.v.reasoning.kind =
                        "Error in routing, defaulting to general agent"
                  /\ \E e \in RouteFailures :
                        routing'.v.reasoning.detail = <<e>>)
       /\ (pc = "parse" => pc' \in {"parse", "routed"} /\ routing'.some = (pc' = "routed"))]_vars

C11_Witness ==
    /\ pc = "routed"
    /\ routing.some
    /\ routing.v.primary_agent = "general"
    /\ routing.v.reasoning.kind =
          "Error in routing, defaulting to general agent"
    /\ routing.v.reasoning.detail = <<"list index out of range">>

\* A decision whose agents are all keys of the registry and whose mode and
\* confidence are values of their enumerations.
ValidDecision(d) ==
    /\ d.primary_agent \in {"sql", "csharp", "epicor", "general"}
    /\ \A i \in 1..Len(d.supporting_agents) :
          d.supporting_agents[i] \in {"sql", "csharp", "epicor", "general"}
    /\ d.collaboration_mode \in {"single", "sequential", "parallel"}
    /\ d.confidence \in {"high", "medium", "low"}

\* C12: whatever the response text, the decision route returns (and the
\* parser's result after every line) names only agents of the registry, a
\* mode in {single, sequential, parallel} and a confidence in {high, medium,
\* low}: a value outside them is discarded and the earlier value kept.
C12_DecisionFieldsValid ==
    /\ ValidDecision(parsed)
    /\ routing.some => ValidDecision(routing.v)

C12_Witness ==
    /\ routing.some
    /\ routing.v.reasoning.kind = "Parsed from router response"
    /\ routing.v.primary_agent = "csharp"
    /\ routing.v.supporting_agents = <<"epicor", "sql">>
    /\ routing.v.collaboration_mode = "parallel"
    /\ routing.v.confidence = "high"

KeywordRouted ==
    routing.some /\ routing.v.reasoning.kind = "Keyword matching"

\* The place of an agent in the registry's declaration order.
Declared(a) == CHOOSE i \in 1..Len(AgentKeys) : AgentKeys[i] = a

FallbackSupportingSet ==
    LET sc == Scores(query)
        sup == routing.v.supporting_agents
    IN  /\ Range(sup) = {a \in DOMAIN sc :
                            sc[a] > 0 /\ a # routing.v.primary_agent}
        /\ NoDuplicates(sup)

\* C15: the supporting agents of the keyword fallback are the agents with a
\* positive score other than the primary, ordered by descending score and,
\* among equal scores, by declaration order.
C15_SupportingByDescendingScore ==
    KeywordRouted =>
        LET sc == Scores(query)
            sup == routing.v.supporting_agents
        IN  /\ FallbackSupportingSet
            /\ \A i, j \in 1..Len(sup) :
                  i < j =>
                    \/ sc[sup[i]] > sc[sup[j]]
                    \/ /\ sc[sup[i]] = sc[sup[j]]
                       /\ Declared(sup[i]) < Declared(sup[j])

\* C15 (amended): the supporting agents of the keyword fallback are the
\* agents with a positive score other than the primary, in declaration
\* order whatever their scores.
C15_SupportingInDeclarationOrder ==
    KeywordRouted =>
        LET sup == routing.v.supporting_agents
        IN  /\ FallbackSupportingSet
            /\ \A i, j \in 1..Len(sup) :
                  i < j => Declared(sup[i]) < Declared(sup[j])

\* sql scores 1 and csharp 2 beside the primary epicor (3): sql comes first.
C15_Witness ==
    /\ KeywordRouted
    /\ query = "select c# linq p21 erp export"
    /\ routing.v.primary_agent = "epicor"
    /\ routing.v.supporting_agents = <<"sql", "csharp">>

\* Some keyword of the agent occurs in the query, case ignored.
HasKeywordOf(a, q) ==
    \E i \in 1..Len(Expertise(a)) :
        Contains(Lower(Chars(q)), Lower(Expertise(a)[i]))

\* The query holds keywords of agent a and of no other agent.
OnlyKeywordsOf(a, q) ==
    /\ HasKeywordOf(a, q)
    /\ \A b \in available_agents \ {a} : ~HasKeywordOf(b, q)

\* C16: keyword fallback on a query that holds keywords of one agent only
\* names this agent as primary with confidence low, whatever calls came
\* before.
C16_OnlyKeywordsOfOneAgent ==
    KeywordRouted =>
        \A a \in available_agents :
            OnlyKeywordsOf(a, query) =>
                /\ routing.v.primary_agent = a
                /\ routing.v.confidence = "low"

\* C17: synthesize_responses returns "No responses available." for a session
\* without messages and the text of the message, as it is, for a session with
\* exactly one message.
C17_SynthesisOfZeroOrOneMessage ==
    session.some =>
        \A k \in 1..Len(synthesized) :
            /\ Len(session.v.messages) = 0 =>
                  synthesized[k] = <<"No responses available.">>
            /\ Len(session.v.messages) = 1 =>
                  synthesized[k] = session.v.messages[1].content

\* The one message of the session is an error message: its text is returned.
C17_Witness ==
    /\ session.some
    /\ Len(session.v.messages) = 1
    /\ session.v.messages[1].message_type = "error"
    /\ Len(synthesized) >= 1
    /\ synthesized[1] = <<"Error: ", "boom">>

SynthesizedOnce ==
    /\ Len(synthesized) = 1
    /\ session.v.final_response = Some(synthesized[1])
    /\ synthesized[1] = synthesize_responses(session.v)

\* C19: whenever a strategy (single, sequential, parallel) has returned, it
\* has called synthesize_responses exactly once and final_response is the
\* synthesis of the session's messages at that moment.
C19_StrategySynthesizesOnce == StrategyReturned => SynthesizedOnce

\* C19 (amended): whenever a strategy has returned with the session
\* completed, it has called synthesize_responses exactly once and
\* final_response is the synthesis of the session's messages at that moment;
\* the only other return is the single strategy's for a primary agent that is
\* not in the lookup: status failed, no call of synthesize_responses and
\* final_response unset.
C19_CompletedStrategySynthesizesOnce ==
    StrategyReturned =>
        IF session.v.status = "completed"
        THEN SynthesizedOnce
        ELSE /\ session.v.status = "failed"
             /\ session.v.mode = "single"
             /\ session.v.primary_agent \notin {"sql", "csharp", "epicor"}
             /\ synthesized = <<>>
             /\ session.v.final_response = None

\* A sequential run of two responders has returned.
C19_Witness ==
    /\ StrategyReturned
    /\ session.v.mode = "sequential"
    /\ session.v.status = "completed"
    /\ Len(session.v.messages) = 2
    /\ Len(synthesized) = 1
    /\ session.v.final_response = Some(synthesized[1])

\* C20: the result of process_query has success = true exactly when the
\* session finished with status completed; responder failures, in any mode
\* and number, leave the terminal status completed and success true.
C20_SuccessIffCompleted ==
    pc = "done" =>
        /\ result.v.success = (session.some /\ session.v.status = "completed")
        /\ (\E i \in 1..Len(calls) : calls[i].raised) => result.v.success

\* C20 (amended): a result that carries no execution_error has success =
\* true exactly when the session finished with status completed, and a
\* result that carries one (an exception reached the handler of
\* process_query) has success = false whatever the session's status;
\* responder failures, in any mode and number, leave the terminal status
\* completed and do not make success false.
C20_SuccessIffCompletedAndNoHandlerError ==
    /\ pc = "done" =>
          result.v.success =
             /\ ~result.v.execution_error.some
             /\ session.some
             /\ session.v.status = "completed"
    /\ (pc \in {"complete", "build", "done"} /\ calls # <<>>) =>
          /\ session.v.status = "completed"
          /\ (pc = "done" /\ ~result.v.execution_error.some) =>
                result.v.success

\* Both responders of a run raised and the result reports success.
C20_Witness ==
    /\ pc = "done"
    /\ Len(calls) = 2
    /\ \A i \in 1..Len(calls) : calls[i].raised
    /\ session.v.status = "completed"
    /\ result.v.success
    /\ ~result.v.execution_error.some

\* C21: the message recorded for a call of a responder has kind error, and
\* carries the error text, if and only if the call failed, by raising or by
\* returning a result with success = false; a successful call is recorded
\* with kind response.
C21_ErrorKindIffCallFailed ==
    session.some =>
        \A i \in 1..Len(session.v.messages) :
            LET msg == session.v.messages[i]
                failed == calls[i].raised \/ ~msg.metadata.success
            IN  /\ (msg.message_type = "error") = failed
                /\ (msg.message_type = "response") = ~failed

\* Sequence a is the beginning of sequence b.
IsPrefix(a, b) ==
    /\ Len(a) <= Len(b)
    /\ \A i \in 1..Len(a) : b[i] = a[i]

C23_StrategyTerminatesNotActive ==
    /\ [](pc \in {"single", "sequential", "parallel"} =>
              session.v.status = "active")
    /\ (pc \in {"single", "sequential", "parallel"}) ~> (pc = "complete")
    /\ [](pc \in {"complete", "build"} =>
              session.v.status \in {"completed", "failed"})
    /\ [][(session.some /\ session'.v.status # session.v.status) =>
              /\ session.v.status = "active"
              /\ session'.v.status \in {"completed", "failed"}]_vars
    /\ []((pc = "done" /\ result.v.collaboration_session.some) =>
              result.v.collaboration_session.v.status
                 \in {"completed", "failed"})

\* A strategy has returned after three calls of responders.
C23_Witness ==
    /\ pc = "complete"
    /\ Len(calls) = 3
    /\ session.v.status = "completed"

\* C24: when a sequential or parallel strategy has returned on a session one
\* of whose supporting agents is not in the lookup, this agent was skipped
\* (no call, and no message or error recorded for it), every other agent of
\* the list was invoked, in the order of the list, and the session is
\* completed.
C24_UnresolvableSupportingSkipped ==
    (/\ StrategyReturned
     /\ session.v.mode \in {"sequential", "parallel"}
     /\ \E i \in 1..Len(session.v.supporting_agents) :
           session.v.supporting_agents[i] \notin agents) =>
        LET order == DeclaredOrder(session.v)
            resolved == {i \in 1..Len(order) : order[i] \in agents}
        IN  /\ session.v.status = "completed"
            /\ {calls[k].position : k \in 1..Len(calls)} = resolved
            /\ \A k \in 1..Len(calls) :
                  calls[k].agent = order[calls[k].position]
            /\ \A k, l \in 1..Len(calls) :
                  k < l => calls[k].position < calls[l].position
            /\ Len(session.v.messages) = Cardinality(resolved)

\* C25: a call of a responder whose retrieval raised, or that had no
\* retriever, is still made, with the empty knowledge context; the step
\* appends one message, which is the responder's (its answer, or its error
\* when it raised) as after a retrieval that returned, and none for the
\* retrieval; the status moves as it does after a retrieval that returned.
C25_EnrichmentFailureSwallowed ==
    [][(Len(calls') = Len(calls) + 1 /\ retrieval' \in {"raised", "none"}) =>
          LET call == calls'[Len(calls')]
              messages == session'.v.messages
          IN  /\ knowledge_context' = <<>>
              /\ Len(messages) = Len(session.v.messages) + 1
              /\ messages[Len(messages)].agent_name
                    \in {"C# Specialist", "Epicor P21 Specialist"}
              /\ messages[Len(messages)].content
                    \in {<<"answer">>,
                         <<"Error processing query: ", "api error">>,
                         <<"Error: ", "boom">>}
              /\ (messages[Len(messages)].message_type = "error") = call.raised
              /\ session'.v.status =
                    IF pc' = "complete" THEN "completed" ELSE "active"]_vars

\* Both calls of a run were made after a retrieval that raised.
C25_Witness ==
    /\ knowledge_retriever
    /\ retrieval = "raised"
    /\ knowledge_context = <<>>
    /\ Len(calls) = 2
    /\ Len(session.v.messages) = 2
    /\ session.v.messages[2].content = <<"answer">>

\* C26: runs of process_query on one orchestrator share no mutable state:
\* each run that has created its session owns an entry of the session
\* registry, and no step of a run overwrites or removes the entry another
\* run has written.
C26_RunsShareNoState ==
    [][/\ \A e \in active_sessions : e \in active_sessions'
       /\ \A e, f \in active_sessions' :
             e.owner = f.owner => e.session_id = f.session_id]_vars

\* A character of a word: a letter or a digit.
IsWordChar(c) ==
    c \in {"a", "b", "c", "d", "e", "f", "g", "h", "i", "j", "k", "l", "m",
           "n", "o", "p", "q", "r", "s", "t", "u", "v", "w", "x", "y", "z",
           "0", "1", "2", "3", "4", "5", "6", "7", "8", "9"}

\* The places of text where keyword stands as a whole word.
WholeWordPlaces(text, keyword) ==
    {i \in 0..(Len(text) - Len(keyword)) :
        /\ \A j \in 1..Len(keyword) : text[i + j] = keyword[j]
        /\ i = 0 \/ ~IsWordChar(text[i])
        /\ \/ i + Len(keyword) = Len(text)
           \/ ~IsWordChar(text[i + Len(keyword) + 1])}

\* The number of whole-word occurrences of the agent's keywords in the query,
\* case ignored.
WholeWordScore(a, q) ==
    Cardinality({p \in (1..Len(Expertise(a))) \X (0..Len(Chars(q))) :
                    p[2] \in WholeWordPlaces(Lower(Chars(q)),
                                             Lower(Expertise(a)[p[1]]))})

\* C27: the keyword-fallback score of every agent is the number of
\* occurrences of its registry keywords in the query as whole words, case
\* ignored; a keyword inside a longer word of the query adds nothing.
C27_ScoreCountsWholeWords ==
    KeywordRouted =>
        \A a \in available_agents :
            Score(a, query) = WholeWordScore(a, query)

\* C28: when a sequential or parallel strategy has returned, the session
\* holds as many messages as [primary] + supporting has entries that are keys
\* of the responder lookup: one message per such entry, whether its call
\* succeeded or raised.
C28_OneMessagePerResolvableEntry ==
    (StrategyReturned /\ session.v.mode \in {"sequential", "parallel"}) =>
        LET order == DeclaredOrder(session.v)
        IN  Len(session.v.messages) =
               Cardinality({i \in 1..Len(order) : order[i] \in agents})


\* The admitted requests whose time lies in the window of `seconds` that
\* starts at x.
AdmittedIn(x, seconds) ==
    {i \in 1..Len(limiter.admitted) :
        limiter.admitted[i] >= x /\ limiter.admitted[i] <= x + seconds}

\* The requests a window still holds at time now.
Held(history, now, seconds) ==
    {i \in 1..Len(history) : history[i] >= now - seconds}

IsSuffix(s, t) ==
    /\ Len(s) <= Len(t)
    /\ s = SubSeq(t, Len(t) - Len(s) + 1, Len(t))

\* C29: is_allowed lets a request in only if every one of the four windows
\* holds fewer requests than the tier allows; the requests let in within any
\* sliding window never exceed the limit of that window; a request that is
\* turned down is recorded in no window.
C29_RateLimitSlidingWindows ==
    /\ [](\A w \in Range(Windows) : \A x \in 0..MaxClock :
            Cardinality(AdmittedIn(x, limits[w].window_seconds))
                <= limits[w].max_requests)
    /\ [][limiter'.admitted # limiter.admitted =>
            \A w \in Range(Windows) :
                Cardinality(Held(limiter.request_history[w], clock',
                                 limits[w].window_seconds))
                    < limits[w].max_requests]_vars
    /\ [][limiter'.admitted = limiter.admitted =>
            \A w \in Range(Windows) :
                IsSuffix(limiter'.request_history[w],
                         limiter.request_history[w])]_vars

C29_Witness ==
    /\ limiter.allowed = Some(FALSE)
    /\ limiter.reason = Some("day")
    /\ Len(limiter.admitted) = DayLimit


RECURSIVE CountedFailures(_, _, _, _)
\* The failure counter and the end of the lockout after the failed logins
\* from the i-th on, where a lockout that has run out sets the counter back
\* to zero and the MAX_LOGIN_ATTEMPTS-th counted failure starts a lockout.
CountedFailures(failed, i, count, until) ==
    IF i > Len(failed) THEN [count |-> count, until |-> until]
    ELSE LET expired == until.some /\ failed[i] >= until.v
             n == (IF expired THEN 0 ELSE count) + 1
         IN  CountedFailures(failed, i + 1, n,
                IF n >= MAX_LOGIN_ATTEMPTS
                THEN Some(failed[i] + LockoutDuration)
                ELSE IF expired THEN None ELSE until)

\* C30: is_account_locked returns true exactly when MAX_LOGIN_ATTEMPTS failed
\* logins have been recorded with no successful login between them and the
\* lockout they started has not run out; with fewer failures, after a
\* successful login or once the lockout has run out it returns false, and
\* the failures are counted from zero again.
C30_LockedAfterMaxFailuresUntilExpiry ==
    auth.answer.some =>
        LET counted == CountedFailures(auth.failed_logins, 1, 0, None)
        IN  auth.answer.v.locked =
                (/\ counted.until.some
                 /\ auth.answer.v.at < counted.until.v)

=============================================================================
